---- MODULE Spec2Model ----
(***************************************************************************)
(* Job Auto Apply backend (src/main.py): the ingestion, scoring and apply  *)
(* pipeline over the three document collections profile, job, application. *)
(*                                                                         *)
(* Text is a sequence of one-character strings, so that tokenize, split,   *)
(* strip and the substring tests of detect_channel are computed character  *)
(* by character as the code computes them.  Scores are integers counted in *)
(* hundredths (1.5 is 150).  A document's _id is its position of insertion *)
(* in its collection (documents are never deleted).                        *)
(***************************************************************************)
EXTENDS Integers, Sequences, FiniteSets, TLC

VARIABLES profile, job, application, last, workers

vars == <<profile, job, application, last, workers>>

(***************************************************************************)
(* Bounds of the model.                                                    *)
(***************************************************************************)
\* the job collection holds at most MaxJobs documents
MaxJobs == 2
\* the application collection holds at most MaxApps documents
MaxApps == 1
\* a concurrent ingestion call carries at most MaxBatch items
MaxBatch == 2

(***************************************************************************)
(* Python values.                                                          *)
(***************************************************************************)
\* None where a str is expected
None == <<"<None>">>
\* None where a list of str is expected
NoneList == <<None>>
\* a job document without the matched_score key
NoScore == -1
\* find_one() returning None
NoDoc == 0

\* "not x" for an Optional[str]
Falsy(x) == x = None \/ x = <<>>

\* "x or d" for an Optional[str]
Or(x, d) == IF Falsy(x) THEN d ELSE x

\* "x or d" for an Optional[List[str]]
OrList(x, d) == IF x = NoneList \/ x = <<>> THEN d ELSE x

ToSet(s) == {s[i] : i \in DOMAIN s}

RECURSIVE Concat(_)
\* the concatenation of a sequence of sequences (list.extend in a loop)
Concat(ss) == IF ss = <<>> THEN <<>> ELSE Head(ss) \o Concat(Tail(ss))

RECURSIVE join(_, _)
\* sep.join(list)
join(sep, list) ==
    IF list = <<>> THEN <<>>
    ELSE IF Len(list) = 1 THEN list[1]
    ELSE list[1] \o sep \o join(sep, Tail(list))

UpperChars == <<"A","B","C","D","E","F","G","H","I","J","K","L","M","N","O","P","Q","R","S","T","U","V","W","X","Y","Z">>
LowerChars == <<"a","b","c","d","e","f","g","h","i","j","k","l","m","n","o","p","q","r","s","t","u","v","w","x","y","z">>
Digits == <<"0","1","2","3","4","5","6","7","8","9">>
Whitespace == {" ", "\t", "\n", "\r"}

\* str.lower() on one character
LowerChar(c) ==
    IF \E k \in DOMAIN UpperChars : UpperChars[k] = c
    THEN LowerChars[CHOOSE k \in DOMAIN UpperChars : UpperChars[k] = c]
    ELSE c

\* str.lower()
lower(text) == [i \in DOMAIN text |-> LowerChar(text[i])]

\* the character class [a-zA-Z0-9+#.]
TokenChars == ToSet(LowerChars) \cup ToSet(UpperChars) \cup ToSet(Digits) \cup {"+", "#", "."}

RECURSIVE findall(_, _, _, _)
\* re.findall(r"[a-zA-Z0-9+#.]+", s): the maximal runs of token characters
findall(s, i, cur, acc) ==
    IF i > Len(s) THEN (IF cur = <<>> THEN acc ELSE Append(acc, cur))
    ELSE IF s[i] \in TokenChars THEN findall(s, i + 1, Append(cur, s[i]), acc)
    ELSE findall(s, i + 1, <<>>, IF cur = <<>> THEN acc ELSE Append(acc, cur))

tokenize(text) ==
    IF Falsy(text) THEN <<>> ELSE findall(lower(text), 1, <<>>, <<>>)

RECURSIVE lstrip(_)
lstrip(s) == IF s # <<>> /\ Head(s) \in Whitespace THEN lstrip(Tail(s)) ELSE s

RECURSIVE rstrip(_)
rstrip(s) ==
    IF s # <<>> /\ s[Len(s)] \in Whitespace THEN rstrip(SubSeq(s, 1, Len(s) - 1)) ELSE s

\* str.strip()
strip(s) == rstrip(lstrip(s))

RECURSIVE split(_, _, _, _, _)
\* s.split(sep): cut at every occurrence of sep, left to right
split(s, sep, i, cur, acc) ==
    IF i > Len(s) THEN Append(acc, cur)
    ELSE IF i + Len(sep) - 1 <= Len(s) /\ SubSeq(s, i, i + Len(sep) - 1) = sep
         THEN split(s, sep, i + Len(sep), <<>>, Append(acc, cur))
         ELSE split(s, sep, i + 1, Append(cur, s[i]), acc)

\* pat in s
Contains(s, pat) ==
    \E i \in 1..(Len(s) - Len(pat) + 1) : SubSeq(s, i, i + Len(pat) - 1) = pat

RECURSIVE strip_markup(_, _)
\* re.sub(r"<.*?>", "", s): drop every "<" up to the next ">" on the same line
strip_markup(s, i) ==
    IF i > Len(s) THEN <<>>
    ELSE LET close == {j \in (i + 1)..Len(s) :
                          /\ s[j] = ">"
                          /\ \A k \in (i + 1)..(j - 1) : s[k] # ">" /\ s[k] # "\n"}
         IN  IF s[i] = "<" /\ close # {}
             THEN strip_markup(s, (CHOOSE j \in close : TRUE) + 1)
             ELSE <<s[i]>> \o strip_markup(s, i + 1)

\* requests.utils.quote on one character: unreserved characters and "/" are
\* kept, the others used in the model become their percent code
QuoteChar(c) ==
    IF c \in ToSet(LowerChars) \cup ToSet(UpperChars) \cup ToSet(Digits) \cup {"_", ".", "-", "~", "/"}
    THEN <<c>>
    ELSE CASE c = " " -> <<"%","2","0">>
           [] c = "+" -> <<"%","2","B">>
           [] c = "#" -> <<"%","2","3">>
           [] OTHER -> <<"%", c>>

quote(text) == Concat([i \in DOMAIN text |-> QuoteChar(text[i])])

(***************************************************************************)
(* Inputs: the profile payloads, the feed documents and the requests the   *)
(* model draws from.                                                       *)
(***************************************************************************)
EmailA == "a@x.ae"
EmailB == "b@x.ae"
\* the email parameter of a request; "" is an absent (or empty) email
EmailInputs == {"", EmailA, EmailB}

PayloadA == [email |-> EmailA, target_titles |-> <<<<"D","e","v">>>>,
             skills |-> <<<<"P","y">>, <<"C","+","+">>>>, cv_text |-> <<"p","y"," ","r","n">>,
             locations |-> <<<<"D","u","b","a","i">>, <<"U","A","E">>>>]
PayloadA2 == [email |-> EmailA, target_titles |-> <<<<"R","N">>>>,
              skills |-> <<>>, cv_text |-> <<>>,
              locations |-> NoneList]
PayloadB == [email |-> EmailB, target_titles |-> <<<<"P","y"," ","D","e","v">>>>,
             skills |-> NoneList, cv_text |-> <<"D","e","v">>,
             locations |-> <<<<"D","u","b","a","i">>>>]
Payloads == {PayloadA, PayloadA2, PayloadB}

UrlGreenhouse == <<"b","o","a","r","d","s",".","g","r","e","e","n","h","o","u","s","e",".","i","o","/","a">>
UrlLeverIndeed == <<"j","o","b","s",".","l","e","v","e","r",".","c","o","/","i","n","d","e","e","d">>
UrlIndeed == <<"a","e",".","i","n","d","e","e","d",".","c","o","m","/","1">>
UrlWorkable == <<"w","o","r","k","a","b","l","e",".","c","o","m">>
UrlOther == <<"a","c","m","e",".","c","o","m","/","4","2">>

\* an <item> block: the text between its tags, None for a tag it lacks
Item(title, link, description, pubDate) ==
    [title |-> title, link |-> link, description |-> description, pubDate |-> pubDate]

Body0 == <<>>
Body1 == <<Item(<<"P","y"," ","D","e","v"," ","-"," ","A","c","m","e"," ","-"," ","D","u","b","a","i">>, UrlGreenhouse, <<"c","+","+"," ","<","b",">","p","y","<","/","b",">">>, <<"M","o","n">>)>>
Body2 == <<Item(<<"R","N">>, UrlGreenhouse, <<"r","n">>, None),
           Item(<<"D","e","v"," ","-"," ","L","e","v","e","r">>, UrlLeverIndeed, <<" ","d","e","v"," ">>, None)>>
Body3 == <<Item(<<"P","y">>, UrlIndeed, <<"p","y">>, None),
           Item(<<"P","y">>, UrlIndeed, <<"C","+","+"," ","d","e","v">>, None),
           Item(<<"R","N"," ","-"," ","C","a","r","e">>, UrlWorkable, None, None)>>
Body4 == <<Item(None, UrlOther, <<"d","e","v">>, None)>>
Bodies == {Body1, Body2, Body3, Body4}

\* what one GET of a feed URL yields: a transport error (network error or
\* timeout) or a response with a status and a body
NetError == [kind |-> "error", status |-> 0, body |-> <<>>]
Response(status, body) == [kind |-> "response", status |-> status, body |-> body]
Outcomes == {NetError, Response(503, Body1), Response(300, Body4)}
                \cup {Response(200, b) : b \in Bodies}
\* a feed without items
EmptyFeed == Response(200, Body0)

\* the top_n of a MatchRequest
TopNs == {-1, 0, 1, 2}

\* the job_id of an ApplyRequest: a well-formed ObjectId string or not
JobIdInputs == {[valid |-> TRUE, id |-> i] : i \in 1..(MaxJobs + 1)}
                   \cup {[valid |-> FALSE, id |-> 0]}

(***************************************************************************)
(* The last request and its response.                                      *)
(***************************************************************************)
Blank == [op |-> "init", status |-> 0, email |-> "", failed |-> 0,
          found |-> 0, inserted |-> 0, top_n |-> 0,
          count |-> 0, jobs |-> <<>>, job_id |-> [valid |-> TRUE, id |-> 0],
          channel |-> "", app_status |-> ""]

Procs == {1, 2}

IdleWorker == [pc |-> "idle", items |-> <<>>, k |-> 1, existing |-> NoDoc,
               found |-> 0, inserted |-> 0, status |-> 0]

Init ==
    /\ profile = <<>>
    /\ job = <<>>
    /\ application = <<>>
    /\ last = Blank
    /\ workers = [p \in Procs |-> IdleWorker]

(***************************************************************************)
(* The document store.                                                     *)
(***************************************************************************)
\* coll.find_one({field: value}): the position of the first document whose
\* field has the value, or NoDoc
find_one(coll, field, value) ==
    IF \E i \in DOMAIN coll : coll[i][field] = value
    THEN CHOOSE i \in DOMAIN coll :
             /\ coll[i][field] = value
             /\ \A k \in 1..(i - 1) : coll[k][field] # value
    ELSE NoDoc

\* coll.find_one(): the first document of the collection, or NoDoc
find_first(coll) == IF coll = <<>> THEN NoDoc ELSE 1

\* coll.update_one({"_id": id}, {"$set": data}): the named fields replaced
update_one(coll, id, data) ==
    [i \in DOMAIN coll |->
        IF coll[i]._id = id
        THEN [f \in DOMAIN coll[i] |-> IF f \in DOMAIN data THEN data[f] ELSE coll[i][f]]
        ELSE coll[i]]

\* create_document(collection, data): the document inserted under a fresh _id
create_document(coll, data) == Append(coll, data @@ [_id |-> Len(coll) + 1])

\* the profile a request resolves to: by email, or the first one stored
find_profile(email) ==
    IF email # "" THEN find_one(profile, "email", email) ELSE find_first(profile)

(***************************************************************************)
(* POST /profile                                                           *)
(***************************************************************************)
upsert_profile ==
    \E payload \in Payloads :
        LET existing == find_one(profile, "email", payload.email)
        IN  /\ profile' = IF existing # NoDoc
                          THEN update_one(profile, profile[existing]._id, payload)
                          ELSE create_document(profile, payload)
            /\ last' = [Blank EXCEPT !.op = "profile", !.status = 200,
                                     !.email = payload.email]
            /\ UNCHANGED <<job, application, workers>>

(***************************************************************************)
(* Ingestion: Indeed RSS                                                   *)
(***************************************************************************)
DefaultTitles == <<<<"D","i","g","i","t","a","l"," ","H","e","a","l","t","h">>, <<"H","e","a","l","t","h","c","a","r","e"," ","A","I">>, <<"M","e","d","i","c","a","l"," ","D","i","r","e","c","t","o","r">>, <<"C","l","i","n","i","c","a","l">>>>
DefaultLocations == <<<<"U","n","i","t","e","d"," ","A","r","a","b"," ","E","m","i","r","a","t","e","s">>>>

\* f"{base}?q={q}&l={ll}"
rss_url(t, l) == <<"h","t","t","p","s",":","/","/","a","e",".","i","n","d","e","e","d",".","c","o","m","/","r","s","s","?","q","=">> \o quote(t) \o <<"&","l","=">> \o quote(l)

RECURSIVE dedupe(_, _)
\* list(dict.fromkeys(urls)): the first occurrence of every url, in order
dedupe(urls, seen) ==
    IF urls = <<>> THEN <<>>
    ELSE IF Head(urls) \in seen THEN dedupe(Tail(urls), seen)
    ELSE <<Head(urls)>> \o dedupe(Tail(urls), seen \cup {Head(urls)})

build_indeed_rss_urls(p) ==
    LET titles0 == OrList(p.target_titles, <<>>)
        locs == OrList(p.locations, DefaultLocations)
        titles == IF titles0 = <<>> THEN DefaultTitles ELSE titles0
        urls == Concat([i \in DOMAIN titles |->
                           [k \in DOMAIN locs |-> rss_url(titles[i], locs[k])]])
    IN  dedupe(urls, {})

\* tag(name) of an item block: its text without markup, stripped, or None
tag(block, name) ==
    IF block[name] = None THEN None ELSE strip(strip_markup(block[name], 1))

\* the job record of one item block
parse_item(block) ==
    LET title == Or(tag(block, "title"), <<>>)
        link == Or(tag(block, "link"), <<>>)
        desc == Or(tag(block, "description"), <<>>)
        pub == Or(tag(block, "pubDate"), None)
        raw == split(title, <<" ","-"," ">>, 1, <<>>, <<>>)
        parts == [i \in DOMAIN raw |-> strip(raw[i])]
    IN  [source |-> <<"i","n","d","e","e","d">>, source_id |-> None,
         title |-> IF Len(parts) >= 2 THEN parts[1] ELSE title,
         company |-> IF Len(parts) >= 2 THEN parts[2] ELSE None,
         location |-> None, url |-> link, description |-> desc,
         posted_at |-> pub, tags |-> <<>>]

\* fetch_failed without raise_for_status()
fetch_failed_transport_only(o) == o.kind = "error"

\* requests.get(url) then raise_for_status(): a transport error or a 4xx/5xx
\* status raises, and the except clause returns []
fetch_failed(o) == o.kind = "error" \/ (o.status >= 400 /\ o.status < 600)

\* parse_indeed_rss(url), o being what the GET of url yields
parse_indeed_rss(o) ==
    IF fetch_failed(o) THEN <<>>
    ELSE [i \in DOMAIN o.body |-> parse_item(o.body[i])]

\* parse_indeed_rss tabulated over what the model's feeds may yield
Parsed == [o \in Outcomes \cup {EmptyFeed} |-> parse_indeed_rss(o)]

\* the loop over urls: all_items.extend(parse_indeed_rss(u))
fetch_all(feeds) == Concat([i \in DOMAIN feeds |-> Parsed[feeds[i]]])

\* upsert_job without the lookup by url: every item is inserted
upsert_job_always_insert(st, item) ==
    [job |-> create_document(st.job, item @@ [matched_score |-> NoScore]),
     inserted |-> st.inserted + 1]

\* upsert_job replacing the stored document instead of setting its fields
upsert_job_replaces(st, item) ==
    LET existing == find_one(st.job, "url", item.url)
    IN  IF existing # NoDoc
        THEN [job |-> [st.job EXCEPT ![existing] =
                          item @@ [_id |-> st.job[existing]._id, matched_score |-> NoScore]],
              inserted |-> st.inserted]
        ELSE [job |-> create_document(st.job, item @@ [matched_score |-> NoScore]),
              inserted |-> st.inserted + 1]

\* one turn of the upsert loop: find the job by url, update it or insert
upsert_job(st, item) ==
    LET existing == find_one(st.job, "url", item.url)
    IN  IF existing # NoDoc
        THEN [job |-> update_one(st.job, st.job[existing]._id, item),
              inserted |-> st.inserted]
        ELSE [job |-> create_document(st.job, item @@ [matched_score |-> NoScore]),
              inserted |-> st.inserted + 1]

RECURSIVE upsert_jobs(_, _, _)
\* the upsert loop over all_items from item k on
upsert_jobs(st, all_items, k) ==
    IF k > Len(all_items) THEN st
    ELSE upsert_jobs(upsert_job(st, all_items[k]), all_items, k + 1)

\* POST /ingest/indeed, no profile found
ingest_indeed_no_profile ==
    \E email \in EmailInputs :
        /\ find_profile(email) = NoDoc
        /\ last' = [Blank EXCEPT !.op = "ingest", !.status = 400, !.email = email]
        /\ UNCHANGED <<profile, job, application, workers>>

\* ingest_result counting every upsert as an insert
ingest_result_counts_updates(jobs, p, feeds) ==
    LET all_items == fetch_all(feeds)
        r == upsert_jobs([job |-> jobs, inserted |-> 0], all_items, 1)
    IN  [job |-> r.job, found |-> Len(all_items), inserted |-> Len(all_items)]

\* the body of ingest_indeed for profile document p, feeds[i] being what
\* the GET of the i-th query url yields
ingest_result(jobs, p, feeds) ==
    LET all_items == fetch_all(feeds)
        r == upsert_jobs([job |-> jobs, inserted |-> 0], all_items, 1)
    IN  [job |-> r.job, found |-> Len(all_items), inserted |-> r.inserted]

\* what the feeds of the query urls of profile document p may yield
FeedInputs(p) == [1..Len(build_indeed_rss_urls(p)) -> Outcomes]

\* POST /ingest/indeed
ingest_indeed ==
    \E email \in EmailInputs :
        /\ find_profile(email) # NoDoc
        /\ \E feeds \in FeedInputs(profile[find_profile(email)]) :
               LET r == ingest_result(job, profile[find_profile(email)], feeds)
               IN  /\ Len(r.job) <= MaxJobs
                   /\ job' = r.job
                   /\ last' = [Blank EXCEPT !.op = "ingest", !.status = 200,
                                            !.email = email,
                                            !.failed = Cardinality({i \in DOMAIN feeds : fetch_failed(feeds[i])}),
                                            !.found = r.found,
                                            !.inserted = r.inserted]
        /\ UNCHANGED <<profile, application, workers>>

(***************************************************************************)
(* Matching                                                                *)
(***************************************************************************)
\* the weights of the three overlaps, in thousandths
W_TITLE == 2000
W_SKILL == 1500
W_CV == 200

\* round(score, 2), from thousandths to hundredths
round2(x) == (x + 5) \div 10

\* job_text joined without the separating blank
job_text_no_blank(j) ==
    join(<<>>, <<Or(j.title, <<>>), Or(j.company, <<>>), Or(j.description, <<>>)>>)

\* the text a job is matched on
job_text(j) ==
    join(<<" ">>, <<Or(j.title, <<>>), Or(j.company, <<>>), Or(j.description, <<>>)>>)

\* the score of job document j against profile document p
score_job(j, p) ==
    LET skills == ToSet(tokenize(join(<<" ">>, OrList(p.skills, <<>>))))
        titles == ToSet(tokenize(join(<<" ">>, OrList(p.target_titles, <<>>))))
        cv_tokens == ToSet(tokenize(p.cv_text))
        jt == ToSet(tokenize(job_text(j)))
        s1 == IF titles # {} THEN Cardinality(jt \cap titles) * W_TITLE ELSE 0
        s2 == IF skills # {} THEN Cardinality(jt \cap skills) * W_SKILL ELSE 0
        s3 == Cardinality(jt \cap cv_tokens) * W_CV
    IN  round2(s1 + s2 + s3)

\* the jobs read by find(), each with its matched_score set
scored(jobs, p) == [i \in DOMAIN jobs |-> [jobs[i] EXCEPT !.matched_score = score_job(jobs[i], p)]]

RECURSIVE persist_scores(_, _, _)
\* the update_one of every scored job, from job k on
persist_scores(coll, jobs, k) ==
    IF k > Len(jobs) THEN coll
    ELSE persist_scores(update_one(coll, jobs[k]._id,
                                   [matched_score |-> jobs[k].matched_score]),
                        jobs, k + 1)

\* the sort key: x.get("matched_score", 0)
sort_key(x) == IF x.matched_score = NoScore THEN 0 ELSE x.matched_score

\* insert_desc putting x before the entries of equal key
insert_desc_unstable(list, x) ==
    LET n == Cardinality({i \in DOMAIN list : sort_key(list[i]) > sort_key(x)})
    IN  SubSeq(list, 1, n) \o <<x>> \o SubSeq(list, n + 1, Len(list))

\* x put into a list sorted by descending key, behind the entries whose key
\* is not smaller (the sort is stable)
insert_desc(list, x) ==
    LET n == Cardinality({i \in DOMAIN list : sort_key(list[i]) >= sort_key(x)})
    IN  SubSeq(list, 1, n) \o <<x>> \o SubSeq(list, n + 1, Len(list))

RECURSIVE sorted_desc(_, _, _)
\* sorted(jobs, key=..., reverse=True)
sorted_desc(jobs, k, acc) ==
    IF k > Len(jobs) THEN acc ELSE sorted_desc(jobs, k + 1, insert_desc(acc, jobs[k]))

\* list[:n]
slice(list, n) ==
    IF n >= 0 THEN SubSeq(list, 1, IF n < Len(list) THEN n ELSE Len(list))
    ELSE SubSeq(list, 1, IF Len(list) + n > 0 THEN Len(list) + n ELSE 0)

\* POST /match, no profile found
match_jobs_no_profile ==
    \E email \in EmailInputs, top_n \in TopNs :
        /\ find_profile(email) = NoDoc
        /\ last' = [Blank EXCEPT !.op = "match", !.status = 400, !.email = email,
                                 !.top_n = top_n]
        /\ UNCHANGED <<profile, job, application, workers>>

\* POST /match
match_jobs ==
    \E email \in EmailInputs :
        /\ find_profile(email) # NoDoc
        /\ LET jobs == scored(job, profile[find_profile(email)])
               all_sorted == sorted_desc(jobs, 1, <<>>)
               stored == persist_scores(job, jobs, 1)
           IN  \E top_n \in TopNs :
                   LET jobs_sorted == slice(all_sorted, top_n)
                   IN  /\ job' = stored
                       /\ last' = [Blank EXCEPT !.op = "match", !.status = 200,
                                                !.email = email, !.top_n = top_n,
                                                !.count = Len(jobs_sorted),
                                                !.jobs = jobs_sorted]
        /\ UNCHANGED <<profile, application, workers>>

(***************************************************************************)
(* Applications                                                            *)
(***************************************************************************)
\* detect_channel testing "indeed" first
detect_channel_indeed_first(url) ==
    IF Contains(url, <<"i","n","d","e","e","d">>) THEN "indeed"
    ELSE IF Contains(url, <<"g","r","e","e","n","h","o","u","s","e",".","i","o">>) THEN "greenhouse"
    ELSE IF Contains(url, <<"j","o","b","s",".","l","e","v","e","r",".","c","o">>) THEN "lever"
    ELSE IF Contains(url, <<"w","o","r","k","a","b","l","e",".","c","o","m">>) THEN "workable"
    ELSE "other"

detect_channel(url) ==
    IF Contains(url, <<"g","r","e","e","n","h","o","u","s","e",".","i","o">>) THEN "greenhouse"
    ELSE IF Contains(url, <<"j","o","b","s",".","l","e","v","e","r",".","c","o">>) THEN "lever"
    ELSE IF Contains(url, <<"w","o","r","k","a","b","l","e",".","c","o","m">>) THEN "workable"
    ELSE IF Contains(url, <<"i","n","d","e","e","d">>) THEN "indeed"
    ELSE "other"

\* the status an application starts in
initial_status(channel) ==
    IF channel \in {"lever", "greenhouse", "workable"} THEN "queued" ELSE "manual_required"

\* the application document of job document j
app_doc(j) ==
    [job_id |-> j._id, job_url |-> j.url, job_title |-> j.title,
     company |-> j.company, apply_channel |-> detect_channel(j.url),
     status |-> initial_status(detect_channel(j.url)), notes |-> None]

\* record_application keeping one application per job, as the job and
\* profile collections are upserted
record_application_upsert(apps, doc) ==
    IF \E i \in DOMAIN apps : apps[i].job_id = doc.job_id
    THEN [i \in DOMAIN apps |->
             IF apps[i].job_id = doc.job_id THEN doc @@ [_id |-> apps[i]._id] ELSE apps[i]]
    ELSE create_document(apps, doc)

\* create_document("application", app_doc)
record_application(apps, doc) == create_document(apps, doc)

\* POST /apply, job_id not a well-formed ObjectId
queue_application_invalid ==
    \E job_id \in JobIdInputs :
        /\ ~job_id.valid
        /\ last' = [Blank EXCEPT !.op = "apply", !.status = 400, !.job_id = job_id]
        /\ UNCHANGED <<profile, job, application, workers>>

\* POST /apply, no job of that _id
queue_application_not_found ==
    \E job_id \in JobIdInputs :
        /\ job_id.valid
        /\ find_one(job, "_id", job_id.id) = NoDoc
        /\ last' = [Blank EXCEPT !.op = "apply", !.status = 404, !.job_id = job_id]
        /\ UNCHANGED <<profile, job, application, workers>>

\* POST /apply
queue_application ==
    \E job_id \in JobIdInputs :
        /\ job_id.valid
        /\ find_one(job, "_id", job_id.id) # NoDoc
        /\ LET doc == app_doc(job[find_one(job, "_id", job_id.id)])
           IN  /\ Len(record_application(application, doc)) <= MaxApps
               /\ application' = record_application(application, doc)
               /\ last' = [Blank EXCEPT !.op = "apply", !.status = 200,
                                        !.job_id = job_id,
                                        !.channel = doc.apply_channel,
                                        !.app_status = doc.status]
        /\ UNCHANGED <<profile, job, workers>>

(***************************************************************************)
(* Concurrent ingestion: the endpoint is a plain def, which the server     *)
(* runs on a thread pool, so that two calls of ingest_indeed interleave at *)
(* their store operations.  Worker p runs one call: c_start resolves the   *)
(* profile and fetches, c_find is the find_one of the loop, c_write its    *)
(* update_one or create_document, c_return the return.                     *)
(***************************************************************************)
c_start(p) ==
    /\ workers[p].pc = "idle"
    /\ \E email \in EmailInputs :
           IF find_profile(email) = NoDoc
           THEN workers' = [workers EXCEPT ![p] = [@ EXCEPT !.pc = "done", !.status = 400]]
           ELSE \E feeds \in FeedInputs(profile[find_profile(email)]) :
                    /\ Len(fetch_all(feeds)) <= MaxBatch
                    /\ workers' = [workers EXCEPT ![p] =
                           [@ EXCEPT !.pc = IF fetch_all(feeds) = <<>> THEN "return" ELSE "find",
                                     !.items = fetch_all(feeds),
                                     !.found = Len(fetch_all(feeds))]]
    /\ UNCHANGED <<profile, job, application, last>>

c_find(p) ==
    /\ workers[p].pc = "find"
    /\ workers' = [workers EXCEPT ![p] =
           [@ EXCEPT !.pc = "write",
                     !.existing = find_one(job, "url", workers[p].items[workers[p].k].url)]]
    /\ UNCHANGED <<profile, job, application, last>>

c_write(p) ==
    /\ workers[p].pc = "write"
    /\ LET w == workers[p]
           item == w.items[w.k]
       IN  /\ job' = IF w.existing # NoDoc
                     THEN update_one(job, job[w.existing]._id, item)
                     ELSE create_document(job, item @@ [matched_score |-> NoScore])
           /\ workers' = [workers EXCEPT ![p] =
                  [@ EXCEPT !.pc = IF w.k + 1 > Len(w.items) THEN "return" ELSE "find",
                            !.k = w.k + 1,
                            !.existing = NoDoc,
                            !.inserted = IF w.existing # NoDoc THEN w.inserted ELSE w.inserted + 1]]
    /\ UNCHANGED <<profile, application, last>>

c_return(p) ==
    /\ workers[p].pc = "return"
    /\ workers' = [workers EXCEPT ![p] = [@ EXCEPT !.pc = "done", !.status = 200]]
    /\ UNCHANGED <<profile, job, application, last>>

Next ==
    \/ upsert_profile
    \/ ingest_indeed_no_profile
    \/ ingest_indeed
    \/ match_jobs_no_profile
    \/ match_jobs
    \/ queue_application_invalid
    \/ queue_application_not_found
    \/ queue_application

Spec == Init /\ [][Next]_vars

NextConc ==
    \/ upsert_profile
    \/ \E p \in Procs : c_start(p)
    \/ \E p \in Procs : c_find(p)
    \/ \E p \in Procs : c_write(p)
    \/ \E p \in Procs : c_return(p)

SpecConc == Init /\ [][NextConc]_vars

(***************************************************************************)
(* Properties.                                                             *)
(***************************************************************************)
\* the profile documents a request can resolve to
ProfilesFound == {find_profile(e) : e \in EmailInputs} \ {NoDoc}

UniqueUrls(jobs) == \A i, k \in DOMAIN jobs : jobs[i].url = jobs[k].url => i = k

UrlsOf(docs) == {docs[i].url : i \in DOMAIN docs}

\* the last item of a batch that carries the url
LastWithUrl(items, url) ==
    CHOOSE n \in DOMAIN items :
        items[n].url = url /\ \A m \in (n + 1)..Len(items) : items[m].url # url

\* the fields the parser supplies
ParserFields == {"source", "source_id", "title", "company", "location", "url",
                 "description", "posted_at", "tags"}

\* C1: after any sequence of ingestion calls the job collection holds at most
\* one job per url, and after one more call with any batch every url of the
\* batch is held by exactly one job, whose description is that of the last
\* item ingested with the url.
C1_DedupByUrl ==
    /\ UniqueUrls(job)
    /\ \A p \in ProfilesFound : \A feeds \in FeedInputs(profile[p]) :
           LET items == fetch_all(feeds)
               after == ingest_result(job, profile[p], feeds).job
           IN  /\ UniqueUrls(after)
               /\ \A n \in DOMAIN items :
                      \E i \in DOMAIN after :
                          /\ after[i].url = items[n].url
                          /\ after[i].description =
                                 items[LastWithUrl(items, items[n].url)].description

\* a job scored under its first description (5.2 for PayloadA) and then
\* ingested again with another description
C1_Witness ==
    /\ last.op = "ingest" /\ last.status = 200 /\ last.inserted < last.found
    /\ \E i \in DOMAIN job :
           /\ job[i].url = UrlGreenhouse
           /\ job[i].description = <<"r","n">>
           /\ job[i].matched_score = 520

\* C2: when two ingestion calls interleave at their store operations, the
\* collection still ends with one job per url.
C2_ConcurrentDedup ==
    (\A p \in Procs : workers[p].pc = "done") => UniqueUrls(job)

\* one turn of the upsert loop, for every item the feeds can carry: a stored
\* url keeps its job's _id and matched_score, takes the item's fields and
\* leaves the other jobs alone; a new url appends one job
UpsertOneItem ==
    \A o \in Outcomes : \A n \in DOMAIN Parsed[o] :
        LET item == Parsed[o][n]
            ex == find_one(job, "url", item.url)
            after == upsert_job([job |-> job, inserted |-> 0], item).job
        IN  IF ex # NoDoc
            THEN /\ Len(after) = Len(job)
                 /\ after[ex]._id = job[ex]._id
                 /\ after[ex].matched_score = job[ex].matched_score
                 /\ \A f \in ParserFields : after[ex][f] = item[f]
                 /\ \A i \in DOMAIN job : i # ex => after[i] = job[i]
            ELSE /\ Len(after) = Len(job) + 1
                 /\ \A i \in DOMAIN job : after[i] = job[i]
                 /\ \A f \in ParserFields : after[Len(after)][f] = item[f]

\* an ingestion call keeps the _id and the matched_score of every stored job
IngestKeepsIdentity ==
    (last'.op = "ingest" /\ last'.status = 200) =>
        \A i \in DOMAIN job :
            /\ i \in DOMAIN job'
            /\ job'[i]._id = job[i]._id
            /\ job'[i].matched_score = job[i].matched_score

\* C3: an item whose url is stored leaves the stored job its _id and its
\* matched_score, sets its parser-supplied fields to the item's, and changes
\* no other job; an item whose url is not stored inserts exactly one job.
C3_UpsertFrame == []UpsertOneItem /\ [][IngestKeepsIdentity]_vars

\* a scored job overwritten by an ingestion that also inserted a new job
C3_Witness ==
    /\ last.op = "ingest" /\ last.status = 200 /\ last.inserted = 1
    /\ \E i, k \in DOMAIN job :
           /\ job[i].url = UrlGreenhouse
           /\ job[i].title = <<"R","N">>
           /\ job[i].matched_score # NoScore
           /\ job[k].url = UrlLeverIndeed
           /\ job[k].matched_score = NoScore

RECURSIVE SumLen(_)
SumLen(ss) == IF ss = <<>> THEN 0 ELSE Len(Head(ss)) + SumLen(Tail(ss))

\* for every batch the feeds can carry, the counts of the call
CountsOfBatch ==
    /\ last.op = "ingest" /\ last.status = 200 => last.inserted <= last.found
    /\ \A p \in ProfilesFound : \A feeds \in FeedInputs(profile[p]) :
           LET r == ingest_result(job, profile[p], feeds)
               batch == [i \in DOMAIN feeds |-> Parsed[feeds[i]]]
           IN  /\ r.found = SumLen(batch)
               /\ r.inserted = Cardinality(UrlsOf(Concat(batch)) \ UrlsOf(job))
               /\ Len(r.job) = Len(job) + r.inserted

\* an ingestion call grows the collection by the inserted it reports
GrowsByInserted ==
    (last'.op = "ingest" /\ last'.status = 200) =>
        Len(job') = Len(job) + last'.inserted

\* C4: found is the number of items parsed over all query urls, inserted the
\* number of distinct urls of the batch that were not stored, and the
\* collection grows by exactly inserted.
C4_Counts == []CountsOfBatch /\ [][GrowsByInserted]_vars

\* three items found, one of them inserted
C4_Witness ==
    last.op = "ingest" /\ last.status = 200 /\ last.found = 3 /\ last.inserted = 1

\* C5: ingestion and scoring without a matching profile, and apply on a job
\* that does not exist, answer 404.
C5_NotFoundIs404 ==
    /\ (last.op \in {"ingest", "match"} /\ find_profile(last.email) = NoDoc)
           => last.status = 404
    /\ (last.op = "apply" /\ last.job_id.valid
           /\ find_one(job, "_id", last.job_id.id) = NoDoc) => last.status = 404

\* a fetch the claim calls failed: a transport error or a status outside 2xx
FailedNon2xx(o) == o.kind = "error" \/ o.status < 200 \/ o.status > 299

\* a fetch that raises: a transport error or a 4xx or 5xx status
FailedErrorStatus(o) == o.kind = "error" \/ o.status \in 400..599

\* with Failed the outcomes that count as a failed fetch:
\* the call with feeds gives the counts and the collection of the call in
\* which every failed feed is a feed without items, and holds a job for
\* every item of a feed that did not fail
AbsorbedAs(Failed) ==
    \A p \in ProfilesFound : \A feeds \in FeedInputs(profile[p]) :
        LET emptied == [i \in DOMAIN feeds |->
                           IF feeds[i] \in Failed THEN EmptyFeed ELSE feeds[i]]
            r == ingest_result(job, profile[p], feeds)
        IN  /\ r = ingest_result(job, profile[p], emptied)
            /\ \A i \in DOMAIN feeds : feeds[i] \notin Failed =>
                   \A n \in DOMAIN feeds[i].body :
                       parse_item(feeds[i].body[n]).url \in UrlsOf(r.job)

\* C6 as stated: a fetch fails on a network error, a timeout or any status
\* outside 2xx, and a failed fetch counts as a feed without items.
C6_AbsorbedNon2xx == AbsorbedAs({o \in Outcomes : FailedNon2xx(o)})

\* C6 amended: a fetch fails on a network error, a timeout or a 4xx or 5xx
\* status, and a failed fetch counts as a feed without items.
C6_AbsorbedErrorStatus ==
    /\ last.op = "ingest" /\ find_profile(last.email) # NoDoc => last.status = 200
    /\ AbsorbedAs({o \in Outcomes : FailedErrorStatus(o)})

\* an ingestion with a failed fetch that still inserted jobs
C6_Witness ==
    last.op = "ingest" /\ last.status = 200 /\ last.failed > 0 /\ last.inserted > 0

\* the token set of a list of texts
TokensOfList(list) == UNION {ToSet(tokenize(list[i])) : i \in DOMAIN list}

\* the score of the formula, in hundredths:
\* 2.0 * |job /\ titles| + 1.5 * |job /\ skills| + 0.2 * |job /\ cv|
FormulaScore(j, p) ==
    LET job_tokens == TokensOfList(<<j.title, j.company, j.description>>)
        title_tokens == TokensOfList(OrList(p.target_titles, <<>>))
        skill_tokens == TokensOfList(OrList(p.skills, <<>>))
        cv_tokens == ToSet(tokenize(p.cv_text))
    IN  200 * Cardinality(job_tokens \cap title_tokens)
            + 150 * Cardinality(job_tokens \cap skill_tokens)
            + 20 * Cardinality(job_tokens \cap cv_tokens)

\* C7: after a scoring call that found a profile every stored job carries
\* the score of the formula for that profile; the call changes no field of a
\* job but matched_score, and a second call changes nothing.
C7_ScoreFormula ==
    /\ (last.op = "match" /\ last.status = 200) =>
           \A i \in DOMAIN job :
               job[i].matched_score = FormulaScore(job[i], profile[find_profile(last.email)])
    /\ \A p \in ProfilesFound :
           LET once == persist_scores(job, scored(job, profile[p]), 1)
               twice == persist_scores(once, scored(once, profile[p]), 1)
           IN  /\ Len(once) = Len(job)
               /\ \A i \in DOMAIN job :
                      [once[i] EXCEPT !.matched_score = job[i].matched_score] = job[i]
               /\ twice = once

\* a scoring call for a profile without skills that gave a job the score 2.0
C7_Witness ==
    /\ last.op = "match" /\ last.status = 200
    /\ profile[find_profile(last.email)].skills = <<>>
    /\ \E i \in DOMAIN job : job[i].matched_score = 200

\* what a scoring call returns, whatever its length: the count is the length
\* of the list, the list holds stored jobs with their scores in descending
\* order of score, jobs of equal score in store order, and no job left out
\* has a higher score than a job returned
TopOrdered ==
    (last.op = "match" /\ last.status = 200) =>
        LET ret == last.jobs
        IN  /\ last.count = Len(ret)
            /\ \A a \in DOMAIN ret :
                   ret[a]._id \in DOMAIN job /\ job[ret[a]._id] = ret[a]
            /\ \A a, b \in DOMAIN ret : a < b =>
                   /\ ret[a].matched_score >= ret[b].matched_score
                   /\ ret[a].matched_score = ret[b].matched_score => ret[a]._id < ret[b]._id
            /\ \A i \in DOMAIN job : (\A a \in DOMAIN ret : ret[a]._id # i) =>
                   \A a \in DOMAIN ret : job[i].matched_score <= ret[a].matched_score

Min(a, b) == IF a < b THEN a ELSE b
Max(a, b) == IF a > b THEN a ELSE b

\* C8 as stated: the scoring call returns min(N, number of stored jobs)
\* jobs, the top ones by score in descending order.
C8_TopN ==
    /\ TopOrdered
    /\ (last.op = "match" /\ last.status = 200) =>
           Len(last.jobs) = Min(last.top_n, Len(job))

\* C8 amended: for N >= 0 the scoring call returns min(N, number of stored
\* jobs) jobs, for N < 0 all but the last -N of the descending order; in
\* both cases the top ones by score in descending order.
C8_TopNSliced ==
    /\ TopOrdered
    /\ (last.op = "match" /\ last.status = 200) =>
           Len(last.jobs) = IF last.top_n >= 0 THEN Min(last.top_n, Len(job))
                            ELSE Max(0, Len(job) + last.top_n)

\* the top 1 of two jobs is the job stored second
C8_Witness ==
    /\ last.op = "match" /\ last.status = 200 /\ last.top_n = 1
    /\ Len(job) = 2 /\ Len(last.jobs) = 1 /\ last.jobs[1]._id = 2

\* the channels in the order their substrings are tested
ChannelOrder == <<[pat |-> <<"g","r","e","e","n","h","o","u","s","e",".","i","o">>, channel |-> "greenhouse"],
                  [pat |-> <<"j","o","b","s",".","l","e","v","e","r",".","c","o">>, channel |-> "lever"],
                  [pat |-> <<"w","o","r","k","a","b","l","e",".","c","o","m">>, channel |-> "workable"],
                  [pat |-> <<"i","n","d","e","e","d">>, channel |-> "indeed"]>>

\* the channel of the first substring in that order the url contains
FirstMatchingChannel(url) ==
    LET hits == {k \in DOMAIN ChannelOrder : Contains(url, ChannelOrder[k].pat)}
    IN  IF hits = {} THEN "other"
        ELSE ChannelOrder[CHOOSE k \in hits : \A m \in hits : k <= m].channel

\* every application carries the channel of its job url and the status of
\* that channel
ChannelAndStatus ==
    \A i \in DOMAIN application :
        LET a == application[i]
        IN  /\ a.apply_channel = FirstMatchingChannel(a.job_url)
            /\ a.status = "queued" <=> a.apply_channel \in {"lever", "greenhouse", "workable"}
            /\ a.status = "manual_required" <=> a.apply_channel \in {"indeed", "other"}
            /\ a.status \notin {"submitted", "failed"}

\* a successful apply adds exactly one application, for the url the job has
\* in the store
OneApplication ==
    (last'.op = "apply" /\ last'.status = 200) =>
        /\ Len(application') = Len(application) + 1
        /\ \A i \in DOMAIN application : application'[i] = application[i]
        /\ application'[Len(application')].job_id = last'.job_id.id
        /\ application'[Len(application')].job_url = job[last'.job_id.id].url
        /\ application'[Len(application')].apply_channel = last'.channel
        /\ application'[Len(application')].status = last'.app_status

\* C9: every successful apply creates exactly one application, whose channel
\* is that of the first substring, in the fixed order, that the job's stored
\* url contains, and whose status is queued for lever, greenhouse and
\* workable and manual_required for indeed and other.
C9_ChannelAndStatus == []ChannelAndStatus /\ [][OneApplication]_vars

\* an application for a url that contains both "jobs.lever.co" and "indeed"
C9_Witness ==
    \E i \in DOMAIN application :
        /\ application[i].job_url = UrlLeverIndeed
        /\ application[i].apply_channel = "lever"
        /\ last.op = "apply" /\ last.status = 200

====
